---- MODULE Spec2Model ----
(***************************************************************************)
(* Conversion of a pnpm lockfile into an npm package-lock document         *)
(* (processPnpmLockfile.ts) and the action that drives it (runAction).     *)
(*                                                                         *)
(* JavaScript strings are tuples of one-character strings, so that the     *)
(* regular expressions and substr/indexOf calls of the source are          *)
(* computed on characters.  A JavaScript object used as a map is a         *)
(* function whose domain is the set of its keys; an optional field of an   *)
(* object is a field that is, or is not, in the DOMAIN of the record.      *)
(***************************************************************************)
EXTENDS Integers, Sequences, FiniteSets, TLC

(***************************************************************************)
(* Strings                                                                 *)
(***************************************************************************)

\* String.prototype.indexOf(c) for a one-character c: 0-based, -1 if absent.
RECURSIVE IndexFrom(_, _, _)
IndexFrom(s, c, i) ==
  IF i > Len(s) THEN -1
  ELSE IF s[i] = c THEN i - 1
  ELSE IndexFrom(s, c, i + 1)

indexOf(s, c) == IndexFrom(s, c, 1)

\* String.prototype.substr(start, length), 0-based start.
substr(s, start, length) == SubSeq(s, start + 1, start + length)

\* s.substr(start): to the end of the string.
substrFrom(s, start) == SubSeq(s, start + 1, Len(s))

startsWith(s, p) == Len(s) >= Len(p) /\ SubSeq(s, 1, Len(p)) = p

\* ["", name, version].join("/")
join3(a, b, c) == a \o <<"/">> \o b \o <<"/">> \o c

Digits == {"0", "1", "2", "3", "4", "5", "6", "7", "8", "9"}

HexDigits == Digits \cup {"a", "b", "c", "d", "e", "f"}

\* /^\d/.test(version)
startsWithDigit(s) == Len(s) >= 1 /\ s[1] \in Digits

githubPrefix == <<"g", "i", "t", "h", "u", "b", ".", "c", "o", "m", "/">>

\* the {40} of the commit hash in the github pattern
HashLen == 40

(***************************************************************************)
(* Package descriptors                                                     *)
(***************************************************************************)

\* A thrown Error: its message template and the text interpolated into it.
Thrown(msg, arg) == [threw |-> msg, arg |-> arg]

IsThrown(r) == "threw" \in DOMAIN r

\* /^github.com\/([^/]+\/([^/]+))\/([0-9a-f]{40})$/ after "github.com/":
\* rest2 is the text after the owner, whose "/" is at i of rest, and j the
\* index of the "/" that ends the repository
githubRepoExec(rest, i, rest2, j, hash) ==
  IF j >= 1 /\ Len(hash) = HashLen /\ \A k \in 1..Len(hash) : hash[k] \in HexDigits
  THEN <<substr(rest, 0, i + 1 + j), substr(rest2, 0, j), hash>>
  ELSE <<>>

githubOwnerExec(rest, i, rest2) ==
  IF i < 1 THEN <<>>
  ELSE githubRepoExec(rest, i, rest2, indexOf(rest2, "/"),
                      substrFrom(rest2, indexOf(rest2, "/") + 1))

\* /^github.com\/([^/]+\/([^/]+))\/([0-9a-f]{40})$/.exec(uri): the groups
\* <<result[1], result[2], result[3]>>, or <<>> for null.  The caller has
\* checked startsWith("github.com/"), so the pattern's "." met a ".".
githubExec(uri) ==
  IF ~startsWith(uri, githubPrefix) THEN <<>>
  ELSE githubOwnerExec(substrFrom(uri, Len(githubPrefix)),
                       indexOf(substrFrom(uri, Len(githubPrefix)), "/"),
                       substrFrom(substrFrom(uri, Len(githubPrefix)),
                                  indexOf(substrFrom(uri, Len(githubPrefix)), "/") + 1))

githubDesc(uri, result) ==
  IF result = <<>>
  THEN Thrown("Error parsing github URI", uri)
  ELSE [type     |-> "Github",
        fullName |-> uri,
        name     |-> result[2],
        version  |-> <<"g", "i", "t", "h", "u", "b", ":">> \o result[1] \o <<"#">> \o result[3]]

getGithubPackageDesc(uri) == githubDesc(uri, githubExec(uri))

\* /^[^/]*\/((?:@[^/]+\/)?[^/]+)\/(.*)$/ from the character after the first
\* "/" on: rest is that text and j the index of its first "/".  The match
\* without the scope group is [^/]+ "/" (.*).
plainExec(rest, j) ==
  IF j < 1 THEN <<>>
  ELSE <<substr(rest, 0, j), substrFrom(rest, j + 1)>>

\* the match with the scope group (?:@[^/]+\/), whose "/" is at j: rest2 is
\* the text after it and k the index of its first "/"
scopedExec(rest, j, rest2, k) ==
  IF k < 1 THEN plainExec(rest, j)
  ELSE <<substr(rest, 0, j + 1 + k), substrFrom(rest2, k + 1)>>

\* the scope group is tried first and given up when the rest does not match
\* with it
restExec(rest, j) ==
  IF Len(rest) >= 1 /\ rest[1] = "@" /\ j >= 2
  THEN scopedExec(rest, j, substrFrom(rest, j + 1), indexOf(substrFrom(rest, j + 1), "/"))
  ELSE plainExec(rest, j)

\* /^[^/]*\/((?:@[^/]+\/)?[^/]+)\/(.*)$/.exec(fullName): <<result[1], result[2]>>,
\* or <<>> for null.  [^/]* ends at the first "/".
pathExec(fullName) ==
  IF indexOf(fullName, "/") = -1 THEN <<>>
  ELSE restExec(substrFrom(fullName, indexOf(fullName, "/") + 1),
                indexOf(substrFrom(fullName, indexOf(fullName, "/") + 1), "/"))

\* the descriptor of a path whose match gave name and version
pathDesc(fullName, name, version, firstUnderscore) ==
  [type     |-> IF startsWith(fullName, <<"/">>) THEN "Version" ELSE "Uri",
   fullName |-> fullName,
   name     |-> name]
  @@ (IF firstUnderscore # -1
      THEN [version |-> substr(version, 0, firstUnderscore),
            extra   |-> substrFrom(version, firstUnderscore + 1)]
      ELSE [version |-> version])

pathResultDesc(fullName, result) ==
  IF result = <<>>
  THEN Thrown("Error parsing package name", fullName)
  ELSE pathDesc(fullName, result[1], result[2], indexOf(result[2], "_"))

getPathPackageDesc(fullName) ==
  IF ~startsWith(fullName, githubPrefix)
  THEN pathResultDesc(fullName, pathExec(fullName))
  ELSE getGithubPackageDesc(fullName)

\* A package in the 'dependencies' section of the lockfile
getDependencyPackageDesc(name, version) ==
  IF startsWithDigit(version)
  THEN getPathPackageDesc(join3(<<>>, name, version))
  ELSE getPathPackageDesc(version)

(***************************************************************************)
(* JavaScript objects used as maps                                         *)
(***************************************************************************)

EmptyMap == [k \in {} |-> <<>>]

\* m[k] = v
Put(m, k, v) == [j \in DOMAIN m \cup {k} |-> IF j = k THEN v ELSE m[j]]

\* delete m[k]
Delete(m, k) == [j \in DOMAIN m \ {k} |-> m[j]]

\* the value JavaScript calls undefined, where a whole object may be missing
Undefined == [undefined |-> TRUE]

(***************************************************************************)
(* getPackage and getSubDependencyFromDependency                           *)
(***************************************************************************)

\* dep.from is set for a github package whose snapshot has a name that the
\* lockfile's specifiers know.
depFrom(lockfile, packageDesc, snapshot) ==
  IF /\ packageDesc.type = "Github"
     /\ "name" \in DOMAIN snapshot
     /\ snapshot.name \in DOMAIN lockfile.specifiers
  THEN [from |-> lockfile.specifiers[snapshot.name]]
  ELSE <<>>

depIntegrity(snapshot) ==
  IF "integrity" \in DOMAIN snapshot.resolution
  THEN [integrity |-> snapshot.resolution.integrity]
  ELSE <<>>

depRequires(snapshot) ==
  IF "dependencies" \in DOMAIN snapshot
  THEN [requires |-> snapshot.dependencies]
  ELSE <<>>

depDev(snapshot) ==
  IF "dev" \in DOMAIN snapshot /\ snapshot.dev = TRUE
  THEN [dev |-> TRUE]
  ELSE <<>>

\* getPackage(lockfile, packageDesc, remove): the thrown error, or the
\* dependency record together with the packages the call leaves behind.
getPackageSnapshot(lockfile, packageDesc, remove, snapshot) ==
  [dep |-> [version |-> packageDesc.version]
             @@ depFrom(lockfile, packageDesc, snapshot)
             @@ depIntegrity(snapshot)
             @@ depRequires(snapshot)
             @@ depDev(snapshot),
   packages |-> IF remove
                THEN Delete(lockfile.packages, packageDesc.fullName)
                ELSE lockfile.packages]

getPackage(lockfile, packageDesc, remove) ==
  IF \/ "packages" \notin DOMAIN lockfile
     \/ packageDesc.fullName \notin DOMAIN lockfile.packages
  THEN Thrown("Failed to lookup in packages", packageDesc.fullName)
  ELSE getPackageSnapshot(lockfile, packageDesc, remove,
                          lockfile.packages[packageDesc.fullName])

\* getSubDependencyFromDependency that forgets the integrity
getSubDependencyVersionOnly(dep) ==
  [version |-> dep.version]
    @@ (IF "resolved" \in DOMAIN dep THEN [resolved |-> dep.resolved] ELSE <<>>)

getSubDependencyFromDependency(dep) ==
  [version |-> dep.version]
    @@ (IF "resolved" \in DOMAIN dep THEN [resolved |-> dep.resolved] ELSE <<>>)
    @@ (IF "integrity" \in DOMAIN dep THEN [integrity |-> dep.integrity] ELSE <<>>)

\* DEPENDENCIES_FIELDS of @pnpm/types, in its order
DEPENDENCIES_FIELDS == <<"optionalDependencies", "dependencies", "devDependencies">>

(***************************************************************************)
(* The lockfiles the conversion is run on                                  *)
(***************************************************************************)

\* bounds of the lockfiles drawn as input
MaxPkgs == 3

MaxEntries == 2

nameA == <<"a">>

nameB == <<"@", "s", "/", "b">>

keyA1 == <<"/", "a", "/", "1">>

keyA2x == <<"/", "a", "/", "2", "_", "x">>

keyUriB2 == <<"r", "/", "@", "s", "/", "b", "/", "2">>

keyGithubA == githubPrefix \o <<"o", "/", "a", "/">> \o [i \in 1..HashLen |-> "c"]

keyBad == <<"b", "a", "d">>

PackageKeys == {keyA1, keyA2x, keyUriB2, keyGithubA, keyBad}

DepNames == {nameA, nameB}

DepVersions == {<<"1">>, <<"2", "_", "x">>, keyUriB2}

\* the snapshot of a package, without its dependencies
SnapshotBase(key) ==
  IF key = keyGithubA
  THEN [name |-> nameA, resolution |-> [tarball |-> <<"t">>]]
  ELSE IF key = keyUriB2
  THEN [resolution |-> [integrity |-> <<"#">> \o key], dev |-> TRUE]
  ELSE IF key = keyA2x
  THEN [resolution |-> [integrity |-> <<"#">> \o key], dev |-> FALSE]
  ELSE [resolution |-> [integrity |-> <<"#">> \o key]]

\* a map name -> version with the names of `slots` that belong to `owner`
EntriesOf(owner, slots, versionOf) ==
  [n \in {s[2] : s \in {t \in slots : t[1] = owner}} |-> versionOf[<<owner, n>>]]

Snapshot(key, slots, versionOf) ==
  LET dependencies == EntriesOf(key, slots, versionOf)
  IN IF DOMAIN dependencies = {}
     THEN SnapshotBase(key)
     ELSE SnapshotBase(key) @@ [dependencies |-> dependencies]

BoundedSubsets(S, n) == {T \in SUBSET S : Cardinality(T) <= n}

\* the lockfile with the given packages (none when hasPackages is FALSE),
\* requires entries and entries of the three dependency fields
Lockfile(hasPackages, keys, reqSlots, reqVersion, depSlots, depVersion) ==
  LET field(f) == EntriesOf(f, depSlots, depVersion)
      present  == {f \in 1..Len(DEPENDENCIES_FIELDS) : DOMAIN field(f) # {}}
      names    == {s[2] : s \in depSlots}
  IN [f \in {DEPENDENCIES_FIELDS[i] : i \in present} |->
         field(CHOOSE i \in present : DEPENDENCIES_FIELDS[i] = f)]
     @@ [lockfileVersion |-> 5,
         specifiers |-> [n \in names |-> <<"*">>]]
     @@ (IF hasPackages
         THEN [packages |-> [k \in keys |-> Snapshot(k, reqSlots, reqVersion)]]
         ELSE <<>>)

\* lf is one of the lockfiles within the bounds: at most maxPkgs packages,
\* and at most maxEntries entries in the dependency fields and in the
\* packages' dependencies together
IsLockfile(lf, maxPkgs, maxEntries) ==
  \E keys \in BoundedSubsets(PackageKeys, maxPkgs) :
    \E depSlots \in BoundedSubsets((1..Len(DEPENDENCIES_FIELDS)) \X DepNames, maxEntries) :
      \E depVersion \in [depSlots -> DepVersions] :
        \/ \E reqSlots \in BoundedSubsets(keys \X DepNames,
                                          maxEntries - Cardinality(depSlots)) :
             \E reqVersion \in [reqSlots -> DepVersions] :
               lf = Lockfile(TRUE, keys, reqSlots, reqVersion, depSlots, depVersion)
        \/ /\ keys = {}
           /\ lf = Lockfile(FALSE, {}, {}, <<>>, depSlots, depVersion)

(***************************************************************************)
(* processLockfile                                                         *)
(***************************************************************************)

VARIABLES
  source,      \* the lockfile as it was read
  lockfile,    \* the lockfile object, whose packages getPackage deletes from
  deps,        \* processLockfile's deps
  subdeps,     \* processLockfile's subdeps
  pc,          \* where the run is
  depType,     \* index in DEPENDENCIES_FIELDS of the field being read
  todo,        \* entries of the running loop not yet visited
  cur,         \* key of the entry of deps whose requires are being read
  err,         \* the error thrown, once pc = "threw"
  packageLock, \* the document processLockfile returned
  breakBuild,  \* runAction's breakBuild
  fs,          \* what reading the lockfile's path gave
  written,     \* writeNpmPackageLock wrote package-lock.json
  setFailed,   \* core.setFailed was called
  exited       \* the code process.exit was called with, -1 before any call

vars == <<source, lockfile, deps, subdeps, pc, depType, todo, cur, err, packageLock,
          breakBuild, fs, written, setFailed, exited>>

\* what processLockfile does not touch
action == <<breakBuild, fs, written, setFailed, exited>>

Throw(e) ==
  /\ pc' = "threw"
  /\ err' = e

\* the fields of DEPENDENCIES_FIELDS from index i on that the lockfile has
\* entries in
FieldsFrom(i) ==
  {j \in i..Len(DEPENDENCIES_FIELDS) : DEPENDENCIES_FIELDS[j] \in DOMAIN lockfile}

\* the entries the first loop has still to visit: <<field index, name>>
Pending1 ==
  IF todo # {} THEN {<<depType, n>> : n \in todo}
  ELSE LET later == FieldsFrom(depType + 1)
       IN IF later = {} THEN {}
          ELSE LET j == CHOOSE m \in later : \A o \in later : m <= o
               IN {<<j, n>> : n \in DOMAIN lockfile[DEPENDENCIES_FIELDS[j]]}

\* deps[packageDesc.name] = getPackage(lockfile, packageDesc, true), for the
\* entry `name` of field j
Phase1Put(j, name, packageDesc, got) ==
  IF IsThrown(got)
  THEN Throw(got) /\ UNCHANGED <<lockfile, deps, depType, todo>>
  ELSE /\ deps' = Put(deps, packageDesc.name, got.dep)
       /\ lockfile' = [lockfile EXCEPT !.packages = got.packages]
       /\ depType' = j
       /\ todo' = {n \in DOMAIN lockfile[DEPENDENCIES_FIELDS[j]] : <<j, n>> \in Pending1} \ {name}
       /\ UNCHANGED <<pc, err>>

Phase1Desc(j, name, packageDesc) ==
  IF IsThrown(packageDesc)
  THEN Throw(packageDesc) /\ UNCHANGED <<lockfile, deps, depType, todo>>
  ELSE Phase1Put(j, name, packageDesc, getPackage(lockfile, packageDesc, TRUE))

\* one iteration of the loop over the dependency fields' entries
Phase1Entry ==
  /\ pc = "phase1"
  /\ \E e \in Pending1 :
       Phase1Desc(e[1], e[2],
                  getDependencyPackageDesc(e[2], lockfile[DEPENDENCIES_FIELDS[e[1]]][e[2]]))
  /\ UNCHANGED <<source, subdeps, cur, packageLock, action>>

\* the first loop ends; Object.entries(lockfile.packages) is taken
Phase2Begin ==
  /\ pc = "phase1"
  /\ Pending1 = {}
  /\ IF "packages" \in DOMAIN lockfile
     THEN /\ pc' = "phase2"
          /\ todo' = DOMAIN lockfile.packages
          /\ UNCHANGED err
     ELSE /\ Throw([threw |-> "TypeError: Cannot convert undefined or null to object"])
          /\ UNCHANGED todo
  /\ UNCHANGED <<source, lockfile, deps, subdeps, depType, cur, packageLock, action>>

\* Classify that looks the package up in deps by its key, not by its name
ClassifyByFullName(d, packageDesc) ==
  IF packageDesc.fullName \in DOMAIN d THEN "subdeps" ELSE "deps"

\* where the second loop puts a package: "subdeps" or "deps"
Classify(d, packageDesc) ==
  IF packageDesc.name \in DOMAIN d THEN "subdeps" ELSE "deps"

Phase2Put(key, packageDesc, got) ==
  IF IsThrown(got)
  THEN Throw(got) /\ UNCHANGED <<deps, subdeps, todo>>
  ELSE /\ IF Classify(deps, packageDesc) = "subdeps"
          THEN /\ subdeps' = Put(subdeps, packageDesc.fullName, got.dep)
               /\ UNCHANGED deps
          ELSE /\ deps' = Put(deps, packageDesc.name, got.dep)
               /\ UNCHANGED subdeps
       /\ todo' = todo \ {key}
       /\ UNCHANGED <<pc, err>>

Phase2Desc(key, packageDesc) ==
  IF IsThrown(packageDesc)
  THEN Throw(packageDesc) /\ UNCHANGED <<deps, subdeps, todo>>
  ELSE Phase2Put(key, packageDesc, getPackage(lockfile, packageDesc, FALSE))

\* one iteration of the loop over the remaining packages
Phase2Entry ==
  /\ pc = "phase2"
  /\ \E key \in todo : Phase2Desc(key, getPathPackageDesc(key))
  /\ UNCHANGED <<source, lockfile, depType, cur, packageLock, action>>

\* the requires entries of deps: <<key of deps, name in its requires>>
RequiresEntries(d) ==
  UNION {{<<key, name>> : name \in DOMAIN d[key].requires} :
           key \in {k \in DOMAIN d : "requires" \in DOMAIN d[k]}}

\* the second loop ends; Object.entries(deps) is taken
Phase3Begin ==
  /\ pc = "phase2"
  /\ todo = {}
  /\ pc' = "phase3"
  /\ todo' = RequiresEntries(deps)
  /\ UNCHANGED <<source, lockfile, deps, subdeps, depType, cur, err, packageLock, action>>

\* val.dependencies[name] = getSubDependencyFromDependency(dep)
Nest(val, name, dep) ==
  [dependencies |->
     Put(IF "dependencies" \in DOMAIN val THEN val.dependencies ELSE EmptyMap,
         name, getSubDependencyFromDependency(dep))]
  @@ val

\* StripRequire that forgets the packages of a custom registry
StripRequireExtraOnly(val, name, packageDesc) ==
  IF "extra" \in DOMAIN packageDesc
  THEN [val EXCEPT !.requires = Put(val.requires, name, packageDesc.version)]
  ELSE val

\* remove any extraneous info from the name in 'requires'
StripRequire(val, name, packageDesc) ==
  IF "extra" \in DOMAIN packageDesc \/ packageDesc.type = "Uri"
  THEN [val EXCEPT !.requires = Put(val.requires, name, packageDesc.version)]
  ELSE val

\* RewriteRequireDesc that does not compare the versions
RewriteRequireDescUnchecked(d, sub, val, name, packageDesc) ==
  IF IsThrown(packageDesc) THEN packageDesc
  ELSE IF packageDesc.fullName \in DOMAIN sub
  THEN StripRequire(Nest(val, name, sub[packageDesc.fullName]), name, packageDesc)
  ELSE IF name \notin DOMAIN d
  THEN [threw |-> "TypeError: Cannot read properties of undefined (reading 'version')"]
  ELSE StripRequire(val, name, packageDesc)

\* what the requires entry `name`, of descriptor packageDesc, does to val,
\* the entry of deps it belongs to: the error thrown or the new val
RewriteRequireDesc(d, sub, val, name, packageDesc) ==
  IF IsThrown(packageDesc) THEN packageDesc
  ELSE IF packageDesc.fullName \in DOMAIN sub
  THEN StripRequire(Nest(val, name, sub[packageDesc.fullName]), name, packageDesc)
  ELSE IF name \notin DOMAIN d
  THEN [threw |-> "TypeError: Cannot read properties of undefined (reading 'version')"]
  ELSE IF d[name].version # packageDesc.version
  THEN Thrown("Failed to lookup in dependencies", packageDesc.fullName)
  ELSE StripRequire(val, name, packageDesc)

RewriteRequire(d, sub, val, name) ==
  RewriteRequireDesc(d, sub, val, name,
                     getDependencyPackageDesc(name, val.requires[name]))

Phase3Put(e, val) ==
  IF IsThrown(val)
  THEN Throw(val) /\ UNCHANGED <<deps, todo, cur>>
  ELSE /\ deps' = Put(deps, e[1], val)
       /\ todo' = todo \ {e}
       /\ cur' = e[1]
       /\ UNCHANGED <<pc, err>>

\* one iteration of the inner loop over the requires of an entry of deps;
\* the entries of one val are read together
Phase3Entry ==
  /\ pc = "phase3"
  /\ \E e \in todo :
       /\ (\E o \in todo : o[1] = cur) => e[1] = cur
       /\ Phase3Put(e, RewriteRequire(deps, subdeps, deps[e[1]], e[2]))
  /\ UNCHANGED <<source, lockfile, subdeps, depType, packageLock, action>>

\* the third loop ends; the document is returned
Return ==
  /\ pc = "phase3"
  /\ todo = {}
  /\ pc' = "returned"
  /\ packageLock' = [requires |-> TRUE, lockfileVersion |-> 1, dependencies |-> deps]
  /\ UNCHANGED <<source, lockfile, deps, subdeps, depType, todo, cur, err, action>>

processLockfile ==
  \/ Phase1Entry
  \/ Phase2Begin
  \/ Phase2Entry
  \/ Phase3Begin
  \/ Phase3Entry
  \/ Return

\* processLockfile is called with one of the lockfiles
Init ==
  /\ IsLockfile(source, MaxPkgs, MaxEntries)
  /\ lockfile = source
  /\ deps = EmptyMap
  /\ subdeps = EmptyMap
  /\ pc = "phase1"
  /\ depType = 0
  /\ todo = {}
  /\ cur = <<>>
  /\ err = Undefined
  /\ packageLock = Undefined
  /\ breakBuild = FALSE
  /\ fs = "ok"
  /\ written = FALSE
  /\ setFailed = FALSE
  /\ exited = -1

Next == processLockfile

Spec == Init /\ [][Next]_vars

(***************************************************************************)
(* runAction                                                               *)
(***************************************************************************)

\* bounds of the lockfiles that runAction reads
MaxActionPkgs == 2

MaxActionEntries == 1

LowerCase ==
  {"a", "b", "c", "d", "e", "f", "g", "h", "i", "j", "k", "l", "m",
   "n", "o", "p", "q", "r", "s", "t", "u", "v", "w", "x", "y", "z"}

UpperCase ==
  {"A", "B", "C", "D", "E", "F", "G", "H", "I", "J", "K", "L", "M",
   "N", "O", "P", "Q", "R", "S", "T", "U", "V", "W", "X", "Y", "Z"}

\* the characters outside /[^a-f0-9-]/
TokenChars == HexDigits \cup {"-"}

\* the characters outside /[^a-zA-Z0-9_=."/-]/
ArgsChars == LowerCase \cup UpperCase \cup Digits \cup {"_", "=", ".", "\"", "/", "-"}

\* isStringAgainstRegexOK(stringItem, regex), regex the negated class of `allowed`
isStringAgainstRegexOK(stringItem, allowed) ==
  \A i \in 1..Len(stringItem) : stringItem[i] \in allowed

checkSnykToken(snykToken) == isStringAgainstRegexOK(snykToken, TokenChars)

checkSnykArgs(snykArgs) == isStringAgainstRegexOK(snykArgs, ArgsChars)

\* the snykToken and snykArguments inputs the action is run with
SnykTokens == {<<"a", "0", "-", "f">>, <<"a", "0", "g">>, <<>>}

SnykArguments == {<<>>, <<"-", "-", "j", "s", "o", "n">>, <<"-", "d", " ", ";">>}

\* path + "pnpm-lock.yaml", path the pnpmLockfilePath input "."
lockfilePath ==
  <<"/", "p", "n", "p", "m", "-", "l", "o", "c", "k", ".", "y", "a", "m", "l">>

\* null, what readPnpmLockfile returns for a file that does not exist
Null == [null |-> TRUE]

conversion == <<source, lockfile, deps, subdeps, depType, todo, cur, packageLock>>

\* lines 40-52: the inputs are read and the token and arguments checked
CheckInputs ==
  /\ pc = "start"
  /\ \E snykToken \in SnykTokens, snykArgs \in SnykArguments :
       IF ~checkSnykToken(snykToken)
       THEN Throw(Thrown("Unauthorized characters in snyk token", <<>>))
       ELSE IF snykArgs # <<>> /\ ~checkSnykArgs(snykArgs)
       THEN Throw(Thrown("Unauthorized characters in snyk args", <<>>))
       ELSE pc' = "auth" /\ UNCHANGED err
  /\ UNCHANGED <<conversion, action>>

\* execSync of a snyk command: it returns or throws
ExecSync(next) ==
  \/ pc' = next /\ UNCHANGED err
  \/ Throw(Thrown("Command failed", <<>>))

\* line 53: npx snyk auth
SnykAuth ==
  /\ pc = "auth"
  /\ ExecSync("read")
  /\ UNCHANGED <<conversion, action>>

\* readPnpmLockfile: the lockfile read, null for ENOENT, any other error
\* thrown again
readPnpmLockfile ==
  /\ pc = "read"
  /\ \/ /\ fs' = "ok"
        /\ IsLockfile(source', MaxActionPkgs, MaxActionEntries)
        /\ lockfile' = source'
        /\ pc' = "loaded"
        /\ UNCHANGED err
     \/ /\ fs' = "ENOENT"
        /\ lockfile' = Null
        /\ pc' = "loaded"
        /\ UNCHANGED <<source, err>>
     \/ /\ fs' = "EACCES"
        /\ Throw(Thrown("EACCES", lockfilePath))
        /\ UNCHANGED <<source, lockfile>>
  /\ UNCHANGED <<deps, subdeps, depType, todo, cur, packageLock,
                 breakBuild, written, setFailed, exited>>

\* processPnpmLockfile that takes null for "nothing to convert"
processPnpmLockfileNullSkips ==
  /\ pc = "loaded"
  /\ IF lockfile = Null
     THEN pc' = "done" /\ UNCHANGED err
     ELSE pc' = "phase1" /\ UNCHANGED err
  /\ UNCHANGED <<conversion, action>>

\* processPnpmLockfile after the read: null is an error, a lockfile goes to
\* processLockfile
processPnpmLockfile ==
  /\ pc = "loaded"
  /\ IF lockfile = Null
     THEN Throw(Thrown("Failed to load pnpm lock file", lockfilePath))
     ELSE pc' = "phase1" /\ UNCHANGED err
  /\ UNCHANGED <<conversion, action>>

\* writeNpmPackageLock called whether or not a document was returned
writeNpmPackageLockAnyway ==
  /\ pc \in {"returned", "threw"}
  /\ \/ written' = TRUE /\ pc' = "event" /\ UNCHANGED err
     \/ Throw(Thrown("write failed", <<>>)) /\ UNCHANGED written
  /\ UNCHANGED <<conversion, breakBuild, fs, setFailed, exited>>

\* line 55: writeNpmPackageLock writes the file or throws
writeNpmPackageLock ==
  /\ pc = "returned"
  /\ \/ written' = TRUE /\ pc' = "event" /\ UNCHANGED err
     \/ Throw(Thrown("write failed", <<>>)) /\ UNCHANGED written
  /\ UNCHANGED <<conversion, breakBuild, fs, setFailed, exited>>

\* process.exit(code)
Exit(code) ==
  /\ exited' = code
  /\ pc' = "exited"

\* the catch of a full scan: err.stdout is logged, which throws when the
\* error has no stdout, and the process exits
ScanFailed ==
  \/ Throw([threw |-> "TypeError: Cannot read properties of undefined (reading 'toString')"])
       /\ UNCHANGED exited
  \/ Exit(IF ~breakBuild THEN 0 ELSE 1) /\ UNCHANGED err

\* lines 57-62: a push event, npx snyk monitor
SnykMonitor ==
  /\ pc = "event"
  /\ ExecSync("done")
  /\ UNCHANGED <<conversion, action>>

\* lines 76-91: a pull request with fullScan, npx snyk test
FullScan ==
  /\ pc = "event"
  /\ \/ pc' = "done" /\ UNCHANGED <<err, exited>>
     \/ ScanFailed
  /\ UNCHANGED <<conversion, breakBuild, fs, written, setFailed>>

\* lines 93-109: a pull request without fullScan, npx snyk test > out and
\* the debug output
SnykTestOut ==
  /\ pc = "event"
  /\ ExecSync("delta")
  /\ UNCHANGED <<conversion, action>>

\* lines 110-143: getDelta of the file out, and the switch on its result
GetDelta ==
  /\ pc = "delta"
  /\ \/ Throw(Thrown("getDelta failed", <<>>)) /\ UNCHANGED <<setFailed, exited>>
     \/ \E result \in {0, 1, 2} :
          IF result = 1
          THEN IF ~breakBuild
               THEN Exit(0) /\ UNCHANGED <<setFailed, err>>
               ELSE setFailed' = TRUE /\ Exit(1) /\ UNCHANGED err
          ELSE IF result = 2
          THEN pc' = "rescan" /\ UNCHANGED <<setFailed, exited, err>>
          ELSE pc' = "done" /\ UNCHANGED <<setFailed, exited, err>>
  /\ UNCHANGED <<conversion, breakBuild, fs, written>>

\* lines 120-141: the full scan after a failed delta computation
Rescan ==
  /\ pc = "rescan"
  /\ \/ pc' = "done" /\ UNCHANGED <<err, exited>>
     \/ ScanFailed
  /\ UNCHANGED <<conversion, breakBuild, fs, written, setFailed>>

\* lines 146-148: neither a push nor a pull request
UnexpectedEvent ==
  /\ pc = "event"
  /\ pc' = "done"
  /\ UNCHANGED <<conversion, action, err>>

\* CatchError that calls setFailed whatever breakBuild is
CatchErrorAlways ==
  /\ pc = "threw"
  /\ setFailed' = TRUE
  /\ pc' = "done"
  /\ UNCHANGED <<conversion, err, breakBuild, fs, written, exited>>

\* lines 150-158: the catch of runAction
CatchError ==
  /\ pc = "threw"
  /\ setFailed' = breakBuild
  /\ pc' = "done"
  /\ UNCHANGED <<conversion, err, breakBuild, fs, written, exited>>

runAction ==
  \/ CheckInputs
  \/ SnykAuth
  \/ readPnpmLockfile
  \/ processPnpmLockfile
  \/ processLockfile
  \/ writeNpmPackageLock
  \/ SnykMonitor
  \/ FullScan
  \/ SnykTestOut
  \/ GetDelta
  \/ Rescan
  \/ UnexpectedEvent
  \/ CatchError

\* runAction is called
InitAction ==
  /\ breakBuild \in BOOLEAN
  /\ pc = "start"
  /\ source = Undefined
  /\ lockfile = Undefined
  /\ deps = EmptyMap
  /\ subdeps = EmptyMap
  /\ depType = 0
  /\ todo = {}
  /\ cur = <<>>
  /\ err = Undefined
  /\ packageLock = Undefined
  /\ fs = "unread"
  /\ written = FALSE
  /\ setFailed = FALSE
  /\ exited = -1

SpecAction == InitAction /\ [][runAction]_vars

(***************************************************************************)
(* Properties of processLockfile                                           *)
(***************************************************************************)

\* the dependencies of the document returned
Output == packageLock.dependencies

\* the keys of the packages of the lockfile as read
SourceKeys ==
  IF "packages" \in DOMAIN source THEN DOMAIN source.packages ELSE {}

\* what identifies a package in the output: its version and integrity
KeyRecord(key) ==
  getSubDependencyFromDependency(getPackage(source, getPathPackageDesc(key), FALSE).dep)

\* the package `key` is the entry of d under its name
IsRootIn(d, key) ==
  /\ getPathPackageDesc(key).name \in DOMAIN d
  /\ getSubDependencyFromDependency(d[getPathPackageDesc(key).name]) = KeyRecord(key)

\* the entries of d that nest the package `key` in their dependencies
NestingRoots(d, key) ==
  {R \in DOMAIN d :
     /\ "dependencies" \in DOMAIN d[R]
     /\ \E n \in DOMAIN d[R].dependencies : d[R].dependencies[n] = KeyRecord(key)}

\* the key of the package that the entry R of d was made from
SourceKeyOf(d, R) ==
  CHOOSE key \in SourceKeys :
    /\ ~IsThrown(getPathPackageDesc(key))
    /\ getPathPackageDesc(key).name = R
    /\ getPathPackageDesc(key).version = d[R].version

\* the requires of the entry R of d, as the lockfile gave them
SourceRequires(d, R) ==
  IF "dependencies" \in DOMAIN source.packages[SourceKeyOf(d, R)]
  THEN source.packages[SourceKeyOf(d, R)].dependencies
  ELSE EmptyMap

HasRequires(d, R) == "requires" \in DOMAIN d[R]

IsNested(d, R, n) ==
  "dependencies" \in DOMAIN d[R] /\ n \in DOMAIN d[R].dependencies

\* the root n has the version that the requires entry n -> version resolves to
ResolvesToRoot(d, n, version) ==
  /\ n \in DOMAIN d
  /\ ~IsThrown(getDependencyPackageDesc(n, version))
  /\ d[n].version = getDependencyPackageDesc(n, version).version

\* C1: in the document a successful processLockfile returns, every name in
\* the requires of a root is an entry of that root's dependencies or a root
\* whose version is the one the requires entry resolves to.
C1_ReferenceClosure ==
  pc = "returned" =>
    \A R \in DOMAIN Output :
      HasRequires(Output, R) =>
        \A n \in DOMAIN Output[R].requires :
          \/ IsNested(Output, R, n)
          \/ ResolvesToRoot(Output, n, Output[R].requires[n])

\* a document is returned in which one requires entry is nested and another
\* resolves to a root
C1_Witness ==
  /\ pc = "returned"
  /\ \E R \in DOMAIN Output :
       /\ HasRequires(Output, R)
       /\ \E n \in DOMAIN Output[R].requires : IsNested(Output, R, n)
  /\ \E R \in DOMAIN Output :
       /\ HasRequires(Output, R)
       /\ \E n \in DOMAIN Output[R].requires :
            ~IsNested(Output, R, n) /\ ResolvesToRoot(Output, n, Output[R].requires[n])

\* C2: after a successful processLockfile every package key of the lockfile
\* is in the output exactly once: as a root, or nested under exactly one root.
C2_Completeness ==
  pc = "returned" =>
    \A key \in SourceKeys :
      Cardinality(NestingRoots(Output, key))
        + (IF IsRootIn(Output, key) THEN 1 ELSE 0) = 1

\* the entries of the f-th dependency field of the lockfile as read
FieldEntries(f) ==
  IF DEPENDENCIES_FIELDS[f] \in DOMAIN source
  THEN source[DEPENDENCIES_FIELDS[f]]
  ELSE EmptyMap

FieldDesc(f, n) == getDependencyPackageDesc(n, FieldEntries(f)[n])

\* f is the last of the dependency fields that has an entry n
IsLastField(f, n) ==
  /\ n \in DOMAIN FieldEntries(f)
  /\ \A m \in (f + 1)..Len(DEPENDENCIES_FIELDS) : n \notin DOMAIN FieldEntries(m)

\* the name n is in the fields i and j, j the later and the last, and the
\* two entries resolve to different versions
TwoVersions(i, j, n) ==
  /\ i < j
  /\ n \in DOMAIN FieldEntries(i)
  /\ IsLastField(j, n)
  /\ FieldDesc(i, n).version # FieldDesc(j, n).version

\* C3: when a name is in two dependency fields with different resolved
\* versions and the first loop has run to its end, the root entry for that
\* name is the record of the field read later.
C3_Precedence ==
  pc \in {"phase2", "phase3", "returned"} =>
    \A i, j \in 1..Len(DEPENDENCIES_FIELDS) :
      \A n \in DepNames :
        TwoVersions(i, j, n) =>
          /\ n \in DOMAIN deps
          /\ getSubDependencyFromDependency(deps[n]) = KeyRecord(FieldDesc(j, n).fullName)

\* C4: in the document returned, a requires entry whose specifier in the
\* lockfile had an extra suffix or named a custom registry is the bare
\* version: the version of its descriptor, with no "_" in it.
C4_DisambiguationStripping ==
  pc = "returned" =>
    \A R \in DOMAIN Output :
      \A n \in DOMAIN SourceRequires(Output, R) :
        (\/ "extra" \in DOMAIN getDependencyPackageDesc(n, SourceRequires(Output, R)[n])
         \/ getDependencyPackageDesc(n, SourceRequires(Output, R)[n]).type = "Uri") =>
          /\ Output[R].requires[n]
               = getDependencyPackageDesc(n, SourceRequires(Output, R)[n]).version
          /\ indexOf(Output[R].requires[n], "_") = -1

\* a document is returned with a requires entry that had an extra suffix and
\* one that named a custom registry
C4_Witness ==
  /\ pc = "returned"
  /\ \E R \in DOMAIN Output : \E n \in DOMAIN SourceRequires(Output, R) :
       "extra" \in DOMAIN getDependencyPackageDesc(n, SourceRequires(Output, R)[n])
  /\ \E R \in DOMAIN Output : \E n \in DOMAIN SourceRequires(Output, R) :
       /\ getDependencyPackageDesc(n, SourceRequires(Output, R)[n]).type = "Uri"
       /\ "extra" \notin DOMAIN getDependencyPackageDesc(n, SourceRequires(Output, R)[n])

\* the requires entry e = <<key, name>> is not staged and the root `name`
\* does not have the version of its descriptor
NotStagedNorRoot(e) ==
  /\ ~IsThrown(getDependencyPackageDesc(e[2], deps[e[1]].requires[e[2]]))
  /\ getDependencyPackageDesc(e[2], deps[e[1]].requires[e[2]]).fullName \notin DOMAIN subdeps
  /\ ~ResolvesToRoot(deps, e[2], deps[e[1]].requires[e[2]])

\* C6: in the third loop, a requires entry whose full key is not staged and
\* whose name is not a root of the descriptor's version makes the conversion
\* fail with the error that names the key.
C6_InconsistentGraph ==
  pc = "phase3" =>
    \A e \in todo :
      NotStagedNorRoot(e) =>
        RewriteRequire(deps, subdeps, deps[e[1]], e[2])
          = Thrown("Failed to lookup in dependencies",
                   getDependencyPackageDesc(e[2], deps[e[1]].requires[e[2]]).fullName)

\* the keys the first loop took out of the packages
Consumed ==
  IF "packages" \in DOMAIN lockfile THEN SourceKeys \ DOMAIN lockfile.packages ELSE {}

\* the keys the first loop left in the packages
Remaining ==
  IF "packages" \in DOMAIN lockfile THEN DOMAIN lockfile.packages ELSE {}

\* the names of the roots the first loop made
Phase1Names == {getPathPackageDesc(key).name : key \in Consumed}

\* the root B had, in the lockfile, a requires entry n that names the key
RequiresKey(d, B, n, key) ==
  /\ n \in DOMAIN SourceRequires(d, B)
  /\ getDependencyPackageDesc(n, SourceRequires(d, B)[n]).fullName = key

\* the root n was made by the first loop from the key k1, and the package
\* k2, left to the second loop, is another version of n that the root B
\* requires
Collision(d, k1, k2, B) ==
  /\ k1 \in Consumed
  /\ k2 \in Remaining
  /\ IsRootIn(d, k1)
  /\ getPathPackageDesc(k2).name = getPathPackageDesc(k1).name
  /\ getPathPackageDesc(k2).version # getPathPackageDesc(k1).version
  /\ B \in DOMAIN d
  /\ RequiresKey(d, B, getPathPackageDesc(k1).name, k2)

\* B.dependencies[n] is the package `key`: its version and its integrity
NestsPackage(d, B, n, key) ==
  /\ IsNested(d, B, n)
  /\ d[B].dependencies[n].version = getPathPackageDesc(key).version
  /\ "integrity" \in DOMAIN d[B].dependencies[n]
       <=> "integrity" \in DOMAIN source.packages[key].resolution
  /\ "integrity" \in DOMAIN d[B].dependencies[n]
       => d[B].dependencies[n].integrity = source.packages[key].resolution.integrity

\* the second and third loops keep every entry of deps and its version
RootVersionsKept ==
  pc \in {"phase2", "phase3"} =>
    \A n \in DOMAIN deps : n \in DOMAIN deps' /\ deps'[n].version = deps[n].version

\* C8: when a root n of version v1 made by the first loop meets a package
\* n@v2 of another version that a root B requires, the document returned has
\* B.dependencies[n] of version v2 with that package's integrity and the
\* root n still of version v1; the second and third loops never change the
\* version of a root.
C8_RootTransitiveCollision ==
  /\ [](pc = "returned" =>
          \A k1, k2 \in SourceKeys : \A B \in DOMAIN Output :
            Collision(Output, k1, k2, B) =>
              /\ NestsPackage(Output, B, getPathPackageDesc(k1).name, k2)
              /\ Output[getPathPackageDesc(k1).name].version = getPathPackageDesc(k1).version)
  /\ [][RootVersionsKept]_vars

\* a document is returned for a lockfile with such a collision
C8_Witness ==
  /\ pc = "returned"
  /\ \E k1, k2 \in SourceKeys : \E B \in DOMAIN Output : Collision(Output, k1, k2, B)

\* the step of the second loop that visits `key` stages it under its full
\* key when deps has its name, and makes it the root of its name otherwise
ClassifiedStep(key) ==
  IF getPathPackageDesc(key).name \in DOMAIN deps
  THEN /\ subdeps' = Put(subdeps, key, getPackage(lockfile, getPathPackageDesc(key), FALSE).dep)
       /\ deps' = deps
  ELSE /\ deps' = Put(deps, getPathPackageDesc(key).name,
                      getPackage(lockfile, getPathPackageDesc(key), FALSE).dep)
       /\ subdeps' = subdeps

\* the package `key`, left by the first loop, has a name of no root of the
\* first loop and is required by a root
PromotedName(d, key) ==
  /\ key \in Remaining
  /\ getPathPackageDesc(key).name \notin Phase1Names
  /\ \E B \in DOMAIN d : \E n \in DOMAIN SourceRequires(d, B) : RequiresKey(d, B, n, key)

ConversionErrors ==
  {"Error parsing github URI", "Error parsing package name",
   "Failed to lookup in packages", "Failed to lookup in dependencies",
   "TypeError: Cannot convert undefined or null to object",
   "TypeError: Cannot read properties of undefined (reading 'version')"}

ConversionFailed == IsThrown(err) /\ err.threw \in ConversionErrors

\* C5: when a parse, a lookup or the version check of processLockfile fails,
\* no document is returned and package-lock.json is not written in that
\* run; the file is written only once a document has been returned.
C5_AllOrNothing ==
  /\ ConversionFailed => packageLock = Undefined /\ ~written
  /\ written => packageLock # Undefined /\ pc \notin {"phase1", "phase2", "phase3", "returned"}

\* a run has ended after the key "bad" failed to parse, and nothing was
\* written
C5_Witness ==
  /\ pc = "done"
  /\ err = Thrown("Error parsing package name", keyBad)
  /\ ~written
  /\ packageLock = Undefined

\* C7 as stated: a lockfile that does not exist is not an error for the
\* caller, and any other failure of the read is the error thrown.
C7_SourceNotFound ==
  /\ fs = "ENOENT" => ~IsThrown(err)
  /\ fs = "EACCES" => err = Thrown("EACCES", lockfilePath)

\* C7 amended: readPnpmLockfile returns null exactly when the file does not
\* exist and throws any other failure of the read; processPnpmLockfile
\* turns the null into the error "Failed to load pnpm lock file", so no
\* document is returned, nothing is written, and runAction's catch fails
\* the build exactly when breakBuild is set.
C7_SourceNotFoundIsError ==
  /\ pc = "loaded" => ~IsThrown(err) /\ (lockfile = Null <=> fs = "ENOENT")
  /\ fs = "EACCES" => err = Thrown("EACCES", lockfilePath)
  /\ (fs = "ENOENT" /\ pc # "loaded") =>
       /\ err = Thrown("Failed to load pnpm lock file", lockfilePath)
       /\ pc \in {"threw", "done"}
       /\ packageLock = Undefined
       /\ ~written
       /\ exited = -1
       /\ pc = "done" => setFailed = breakBuild

\* the lockfile did not exist and the run ended with setFailed called
C7_Witness ==
  /\ fs = "ENOENT"
  /\ pc = "done"
  /\ lockfile = Null
  /\ setFailed

\* C10: in a run whose breakBuild is not set, setFailed is never called and
\* the process never exits with code 1.
C10_NonBlocking == ~breakBuild => ~setFailed /\ exited # 1

\* a run whose breakBuild is not set has caught an error and ended
C10_Witness ==
  /\ ~breakBuild
  /\ pc = "done"
  /\ IsThrown(err)
  /\ ~setFailed
====
